---- MODULE Spec2Model ----
(***************************************************************************)
(* English to Roman Urdu translator (src/main2.py): a Streamlit page whose *)
(* script, main(), is re-run for every user interaction of every session,  *)
(* around one process-wide memoized EnglishToRomanUrduTranslator.          *)
(*                                                                         *)
(* Strings are sequences of characters; Python's truthiness of a string is *)
(* "its length is not zero".  A decoded translation is a sequence of word  *)
(* tokens.  The pretrained network and its tokenizer are a library: they   *)
(* are modelled as a fixed function of the loaded weights and the input    *)
(* (beam search, no sampling), which may raise at each stage.              *)
(***************************************************************************)
EXTENDS Integers, Sequences, FiniteSets, TLC

VARIABLES
    objects,    \* the translator objects constructed so far, by reference
    cache,      \* st.cache_resource entry of get_translator: a reference or None
    loads,      \* executions of load_model so far in the process
    pc,         \* per session: position of the session's script run
    page,       \* per session: is the translate button on the rendered page
    local,      \* per session: the locals of main() in the running script
    ui          \* per session: the elements the running script has shown

vars == <<objects, cache, loads, pc, page, local, ui>>

----------------------------------------------------------------------------
(* Bounds *)

LongTextLen == 260
MaxLoads == 2
MaxCands == 2

(* Program constants *)

SliderMin == 50
SliderMax == 250
SliderDefault == 128

Sessions == {"s1", "s2"}
Whitespace == {" ", "\n", "\t"}
None == "None"

(* Optional values: a string or None, a reference or None. *)
NoneStr == [none |-> TRUE, val |-> <<>>]
NoneRef == [none |-> TRUE, val |-> 0]
Some(v) == [none |-> FALSE, val |-> v]

(* What the text area can hold: nothing, blanks only, a word, and a text *)
(* longer than any max_length.                                           *)
LongText == [i \in 1..LongTextLen |-> "a"]
Texts == {<<>>, <<" ", "\n">>, <<"a">>, LongText}
SliderValues == {SliderMin, SliderDefault, SliderMax}

----------------------------------------------------------------------------
(* The wrapped library: tokenizer, generation model, decoder. *)

(* Tokens: a special token (</s>, a language tag) or a word piece. *)
Special(name) == <<"special", name>>
Word(k) == <<"word", k>>
IsSpecial(tok) == tok[1] = "special"
EOS == Special("</s>")

Min(a, b) == IF a < b THEN a ELSE b

Rep(tok, n) == [i \in 1..n |-> tok]

(* Mutant of Truthy: the test "is not None", which the empty string passes. *)
TruthyIsNotNone(s) == TRUE

(* if <str>: Python's truth value of a string *)
Truthy(s) == Len(s) > 0

(* Which stage of the pipeline raises, or what the beam search returns:    *)
(* a stage raises; the batch comes back empty, with one sequence or with   *)
(* several; the one sequence holds no word, some words, or as many as fit. *)
Shapes == << "one", "tokenize_error", "keyerror", "generate_error",
             "decode_error", "none", "many", "empty", "full" >>

Weights == 0 .. (Len(Shapes) - 1)

TextWords(text) == SelectSeq(text, LAMBDA c : c \notin Whitespace)

(* The network is opaque: what it does with an input is some fixed        *)
(* function of its weights and the input.  This one makes every shape      *)
(* occur for every input, under some weights.                              *)
Shape(weights, text, max_length) ==
    Shapes[((weights + Len(TextWords(text)) + max_length) % Len(Shapes)) + 1]

(* tokenizer(text, truncation=True, max_length=max_length): the words, cut *)
(* to leave room for the two special tokens, then </s> and the source tag. *)
tokenizer(self, text, max_length) ==
    IF Shape(self.weights, text, max_length) = "tokenize_error"
    THEN [raised |-> "TokenizeError", input_ids |-> <<>>]
    ELSE [raised |-> None,
          input_ids |-> Rep(Word(0), Min(Len(TextWords(text)), max_length - 2))
                        \o <<EOS, Special(self.src_lang)>>]

(* tokenizer.lang_code_to_id["ur_PK"] *)
lang_code_to_id(self, text, max_length, code) ==
    IF Shape(self.weights, text, max_length) = "keyerror"
    THEN [raised |-> "KeyError", id |-> None]
    ELSE [raised |-> None, id |-> Special(code)]

(* One generated sequence: </s>, the forced first token, words, </s>; never *)
(* longer than max_length.                                                  *)
Sequence(bos, word, n, max_length) ==
    <<EOS, bos>> \o Rep(word, Min(n, max_length - 3)) \o <<EOS>>

(* model.generate(input_ids, max_length=..., num_beams=4, ...,             *)
(*                forced_bos_token_id=...): a batch of sequences.          *)
generate(self, text, input_ids, max_length, forced_bos) ==
    LET shape == Shape(self.weights, text, max_length) IN
    IF shape = "generate_error"
    THEN [raised |-> "GenerateError", sequences |-> <<>>]
    ELSE [raised |-> None,
          sequences |->
              CASE shape = "none"  -> <<>>
                [] shape = "many"  ->
                     [k \in 1..MaxCands |->
                         Sequence(forced_bos, Word(k), k, max_length)]
                [] shape = "empty" -> << Sequence(forced_bos, Word(1), 0, max_length) >>
                [] shape = "full"  ->
                     << Sequence(forced_bos, Word(1), max_length, max_length) >>
                [] OTHER           ->
                     << Sequence(forced_bos, Word(1), Len(input_ids), max_length) >>]

(* tokenizer.batch_decode(generated_tokens, skip_special_tokens=True) *)
batch_decode(self, text, max_length, sequences) ==
    IF Shape(self.weights, text, max_length) = "decode_error"
    THEN [raised |-> "DecodeError", texts |-> <<>>]
    ELSE [raised |-> None,
          texts |-> [k \in 1..Len(sequences) |->
                        SelectSeq(sequences[k], LAMBDA t : ~IsSpecial(t))]]

----------------------------------------------------------------------------
(* class EnglishToRomanUrduTranslator *)

(* What from_pretrained can yield. *)
FetchFailed == [ok |-> FALSE, weights |-> 0]
Fetches == {FetchFailed} \cup {[ok |-> TRUE, weights |-> w] : w \in Weights}

(* Mutant of load_model: the failure is shown but not re-raised. *)
load_model_swallowing(self, fetched) ==
    IF ~fetched.ok
    THEN [raised |-> None,
          error  |-> <<"Error loading model: ", "LoadError">>,
          self   |-> self]
    ELSE [raised |-> None,
          error  |-> <<>>,
          self   |-> [self EXCEPT !.weights = fetched.weights,
                                  !.src_lang = "en_XX",
                                  !.tgt_lang = "ur_PK"]]

(* load_model: fetched is what from_pretrained yields, the weights of the  *)
(* checkpoint or a failure.  A failure is shown and re-raised.             *)
load_model(self, fetched) ==
    IF ~fetched.ok
    THEN [raised |-> "LoadError",
          error  |-> <<"Error loading model: ", "LoadError">>,
          self   |-> self]
    ELSE [raised |-> None,
          error  |-> <<>>,
          self   |-> [self EXCEPT !.weights = fetched.weights,
                                  !.src_lang = "en_XX",
                                  !.tgt_lang = "ur_PK"]]

(* __init__ *)
init(fetched) ==
    load_model([model_name |-> "facebook/mbart-large-50-many-to-many-mmt",
                device     |-> "cpu",
                weights    |-> 0,
                src_lang   |-> None,
                tgt_lang   |-> None], fetched)

(* Mutant of Subscript0: list[-1] *)
SubscriptLast(list) ==
    IF Len(list) = 0
    THEN [raised |-> "IndexError", value |-> <<>>]
    ELSE [raised |-> None, value |-> list[Len(list)]]

(* list[0]: IndexError on the empty list *)
Subscript0(list) ==
    IF Len(list) = 0
    THEN [raised |-> "IndexError", value |-> <<>>]
    ELSE [raised |-> None, value |-> list[1]]

(* Mutant of GenerateMaxLength: a fixed cap instead of the caller's. *)
GenerateMaxLengthFixed(max_length) == SliderMax

(* max_length=max_length, the keyword argument of model.generate *)
GenerateMaxLength(max_length) == max_length

(* The body of translate's try block: the first statement that raises ends *)
(* it.                                                                     *)
try_block(self, text, max_length) ==
    LET encoded == tokenizer(self, text, max_length)
        bos     == lang_code_to_id(self, text, max_length, "ur_PK")
        gen     == generate(self, text, encoded.input_ids,
                            GenerateMaxLength(max_length), bos.id)
        decoded == batch_decode(self, text, max_length, gen.sequences)
        first   == Subscript0(decoded.texts)
    IN  CASE encoded.raised # None -> [raised |-> encoded.raised, value |-> <<>>]
          [] bos.raised # None     -> [raised |-> bos.raised, value |-> <<>>]
          [] gen.raised # None     -> [raised |-> gen.raised, value |-> <<>>]
          [] decoded.raised # None -> [raised |-> decoded.raised, value |-> <<>>]
          [] OTHER                 -> first

(* Mutant of translate: the handler catches less than Exception, so an    *)
(* error of the generation step gets through.                             *)
translate_catching_less(self, text, max_length) ==
    LET r == try_block(self, text, max_length) IN
    IF r.raised = "GenerateError"
    THEN [ret    |-> NoneStr,
          error  |-> <<>>,
          raised |-> r.raised,
          self   |-> self]
    ELSE IF r.raised # None
    THEN [ret    |-> NoneStr,
          error  |-> <<"Translation error: ", r.raised>>,
          raised |-> None,
          self   |-> self]
    ELSE [ret    |-> Some(r.value),
          error  |-> <<>>,
          raised |-> None,
          self   |-> self]

(* Mutant of translate: the handler also reloads the model, which leaves   *)
(* the object with other weights.                                          *)
translate_reloading(self, text, max_length) ==
    LET r == try_block(self, text, max_length) IN
    IF r.raised # None
    THEN [ret    |-> NoneStr,
          error  |-> <<"Translation error: ", r.raised>>,
          raised |-> None,
          self   |-> [self EXCEPT !.weights = (@ + 1) % Len(Shapes)]]
    ELSE [ret    |-> Some(r.value),
          error  |-> <<>>,
          raised |-> None,
          self   |-> self]

(* translate: what it returns, the banner it shows, the exception it lets  *)
(* through, and the object it leaves behind.                               *)
translate(self, text, max_length) ==
    LET r == try_block(self, text, max_length) IN
    IF r.raised # None
    THEN [ret    |-> NoneStr,
          error  |-> <<"Translation error: ", r.raised>>,
          raised |-> None,
          self   |-> self]
    ELSE [ret    |-> Some(r.value),
          error  |-> <<>>,
          raised |-> None,
          self   |-> self]

----------------------------------------------------------------------------
(* main(): the page script *)

(* Mutant of get_translator: without @st.cache_resource. *)
get_translator_uncached(heap, cached, fetched) ==
    LET new == init(fetched) IN
    IF new.raised # None
    THEN [raised |-> new.raised, error |-> new.error, ret |-> NoneRef,
          heap |-> heap, cached |-> cached, loaded |-> 1]
    ELSE [raised |-> None, error |-> new.error, ret |-> Some(Len(heap) + 1),
          heap |-> Append(heap, new.self),
          cached |-> Some(Len(heap) + 1), loaded |-> 1]

(* @st.cache_resource get_translator(): the cached reference when there is *)
(* one; otherwise the constructor runs, and only a returned object is      *)
(* stored: an exception leaves the cache as it was.                        *)
get_translator(heap, cached, fetched) ==
    IF ~cached.none
    THEN [raised |-> None, error |-> <<>>, ret |-> cached,
          heap |-> heap, cached |-> cached, loaded |-> 0]
    ELSE LET new == init(fetched) IN
         IF new.raised # None
         THEN [raised |-> new.raised, error |-> new.error, ret |-> NoneRef,
               heap |-> heap, cached |-> cached, loaded |-> 1]
         ELSE [raised |-> None, error |-> new.error, ret |-> Some(Len(heap) + 1),
               heap |-> Append(heap, new.self),
               cached |-> Some(Len(heap) + 1), loaded |-> 1]

NoCall == [made |-> FALSE, text |-> <<>>, max_length |-> 0]

Locals(text, max_length, clicked) ==
    [input_text  |-> text,
     max_length  |-> max_length,
     clicked     |-> clicked,
     translator  |-> NoneRef,
     call        |-> NoCall,
     returned    |-> FALSE,
     translation |-> NoneStr]

Blank ==
    [warning   |-> FALSE,
     error     |-> <<>>,
     success   |-> FALSE,
     panel     |-> NoneStr,
     spinner   |-> FALSE,
     exception |-> None]

Init ==
    /\ objects = <<>>
    /\ cache = NoneRef
    /\ loads = 0
    /\ pc = [s \in Sessions |-> "idle"]
    /\ page = [s \in Sessions |-> FALSE]
    /\ local = [s \in Sessions |-> Locals(<<>>, SliderDefault, FALSE)]
    /\ ui = [s \in Sessions |-> Blank]

(* What the user can have done to trigger a run: without a rendered page,  *)
(* only load it (empty text, default slider, nothing clicked).             *)
Interactions(s) ==
    IF page[s]
    THEN Texts \X SliderValues \X BOOLEAN
    ELSE {<< <<>>, SliderDefault, FALSE >>}

(* Lines 50-85: a script run starts and obtains the translator. *)
StartRun(s) ==
    /\ pc[s] \in {"idle", "done"}
    /\ \E w \in Interactions(s), fetched \in Fetches :
         LET r == get_translator(objects, cache, fetched) IN
            /\ IF r.loaded = 0 THEN fetched = FetchFailed ELSE loads < MaxLoads
            /\ objects' = r.heap
            /\ cache' = r.cached
            /\ loads' = loads + r.loaded
            /\ page' = [page EXCEPT ![s] = FALSE]
            /\ local' = [local EXCEPT ![s] =
                             [Locals(w[1], w[2], w[3]) EXCEPT !.translator = r.ret]]
            /\ IF r.raised # None
               THEN /\ ui' = [ui EXCEPT ![s] =
                                [Blank EXCEPT !.error = r.error,
                                              !.exception = r.raised]]
                    /\ pc' = [pc EXCEPT ![s] = "done"]
               ELSE /\ ui' = [ui EXCEPT ![s] = [Blank EXCEPT !.error = r.error]]
                    /\ pc' = [pc EXCEPT ![s] = "button"]

(* Lines 87-119 and 127-128: the widgets are drawn; on a click the text is *)
(* tested and either translate is called under the spinner or the warning  *)
(* is shown.                                                               *)
Button(s) ==
    /\ pc[s] = "button"
    /\ page' = [page EXCEPT ![s] = TRUE]
    /\ IF local[s].clicked
       THEN IF Truthy(local[s].input_text)
            THEN /\ local' = [local EXCEPT ![s].call =
                                 [made |-> TRUE,
                                  text |-> local[s].input_text,
                                  max_length |-> local[s].max_length]]
                 /\ ui' = [ui EXCEPT ![s].spinner = TRUE]
                 /\ pc' = [pc EXCEPT ![s] = "translating"]
            ELSE /\ ui' = [ui EXCEPT ![s].warning = TRUE]
                 /\ pc' = [pc EXCEPT ![s] = "done"]
                 /\ UNCHANGED local
       ELSE /\ pc' = [pc EXCEPT ![s] = "done"]
            /\ UNCHANGED <<local, ui>>
    /\ UNCHANGED <<objects, cache, loads>>

(* Lines 119-126: translate returns; a truthy translation is rendered. *)
TranslateReturn(s) ==
    /\ pc[s] = "translating"
    /\ LET ref == local[s].translator.val
           r   == translate(objects[ref], local[s].call.text,
                            local[s].call.max_length)
       IN  /\ objects' = [objects EXCEPT ![ref] = r.self]
           /\ IF r.raised # None
              THEN /\ ui' = [ui EXCEPT ![s].spinner = FALSE,
                                       ![s].error = r.error,
                                       ![s].exception = r.raised]
                   /\ UNCHANGED local
              ELSE /\ local' = [local EXCEPT ![s].translation = r.ret,
                                             ![s].returned = TRUE]
                   /\ ui' = [ui EXCEPT
                               ![s].spinner = FALSE,
                               ![s].error = r.error,
                               ![s].panel = IF ~r.ret.none /\ Truthy(r.ret.val)
                                            THEN r.ret ELSE @,
                               ![s].success = ~r.ret.none /\ Truthy(r.ret.val)]
    /\ pc' = [pc EXCEPT ![s] = "done"]
    /\ UNCHANGED <<cache, loads, page>>

Next ==
    \E s \in Sessions : StartRun(s) \/ Button(s) \/ TranslateReturn(s)

Spec == Init /\ [][Next]_vars

----------------------------------------------------------------------------
(* Vocabulary of the properties *)

(* The session's run has issued its translate call and got the result. *)
Returned(s) == local[s].call.made /\ local[s].returned

(* The run of s is over and included an activation of the button. *)
Activated(s) == pc[s] = "done" /\ local[s].clicked

(* The object the call of s runs on. *)
Handle(s) == objects[local[s].translator.val]

(* What the library stages yield for the call of s, stage by stage. *)
Encoded(s) ==
    tokenizer(Handle(s), local[s].call.text, local[s].call.max_length)
LangId(s) ==
    lang_code_to_id(Handle(s), local[s].call.text, local[s].call.max_length, "ur_PK")
Generated(s) ==
    generate(Handle(s), local[s].call.text, Encoded(s).input_ids,
             local[s].call.max_length, LangId(s).id)
Decoded(s) ==
    batch_decode(Handle(s), local[s].call.text, local[s].call.max_length,
                 Generated(s).sequences)

(* The exception the library raises during the call of s, if any. *)
LibraryRaises(s) ==
    CASE Encoded(s).raised # None   -> Encoded(s).raised
      [] LangId(s).raised # None    -> LangId(s).raised
      [] Generated(s).raised # None -> Generated(s).raised
      [] Decoded(s).raised # None   -> Decoded(s).raised
      [] OTHER                      -> None

LoadBanner == <<"Error loading model: ", "LoadError">>

(* A text of whitespace only. *)
IsBlank(s) == \A i \in 1..Len(s) : s[i] \in Whitespace

----------------------------------------------------------------------------
(* C1: an activation with empty input text ends with the warning shown and *)
(* no translate call, and no run ever calls translate with the empty       *)
(* string, whatever the slider value and the earlier runs.                 *)
C1_EmptyInputWarnsAndNeverTranslates ==
    \A s \in Sessions :
        /\ local[s].call.made => local[s].call.text # <<>>
        /\ (Activated(s) /\ local[s].input_text = <<>>) =>
               /\ ui[s].warning
               /\ ~local[s].call.made
               /\ ~local[s].returned

C1_Witness ==
    \E s \in Sessions :
        /\ Activated(s)
        /\ local[s].input_text = <<>>
        /\ local[s].max_length # SliderDefault
        /\ ui[s].warning
        /\ loads > 1

(* C2: translate is called only when the input text is neither empty nor   *)
(* blank (whitespace only).                                                *)
C2_BlankTextNeverTranslated ==
    \A s \in Sessions :
        local[s].call.made =>
            /\ local[s].call.text # <<>>
            /\ ~IsBlank(local[s].call.text)

(* C3: translate never propagates an exception: when a stage of the        *)
(* pipeline raises, the run shows the error banner with the message and    *)
(* gets None; otherwise it gets a string and no banner.                    *)
C3_TranslateNeverPropagates ==
    \A s \in Sessions :
        /\ (local[s].call.made /\ pc[s] = "done") =>
               /\ ui[s].exception = None
               /\ local[s].returned
        /\ (Returned(s) /\ LibraryRaises(s) # None) =>
               /\ local[s].translation.none
               /\ ui[s].error = <<"Translation error: ", LibraryRaises(s)>>
        /\ (Returned(s) /\ LibraryRaises(s) = None /\ Len(Decoded(s).texts) > 0) =>
               /\ ~local[s].translation.none
               /\ ui[s].error = <<>>

C3_Witness ==
    \E s, t \in Sessions :
        /\ Returned(s) /\ LibraryRaises(s) = "GenerateError"
        /\ local[s].translation.none
        /\ Returned(t) /\ LibraryRaises(t) = "TokenizeError"
        /\ ui[t].error = <<"Translation error: ", "TokenizeError">>

C6_OutcomeShownMatchesResult ==
    \A s \in Sessions :
        (Activated(s) /\ local[s].input_text # <<>>) =>
            /\ ui[s].success \/ ui[s].error # <<>>
            /\ ~local[s].translation.none =>
                   ui[s].panel = local[s].translation /\ ui[s].success
            /\ local[s].translation.none =>
                   ui[s].panel.none /\ ~ui[s].success /\ ui[s].error # <<>>

(* C7: on one handle, two calls with the same text and max_length give the *)
(* same result and the same banner, whatever calls ran in between.         *)
C7_TranslateDeterministic ==
    \A s, t \in Sessions :
        (/\ Returned(s) /\ Returned(t)
         /\ local[s].translator = local[t].translator
         /\ local[s].call = local[t].call) =>
            /\ local[s].translation = local[t].translation
            /\ ui[s].error = ui[t].error

C7_Witness ==
    \E s, t \in Sessions :
        /\ s # t
        /\ Returned(s) /\ Returned(t)
        /\ local[s].translator = local[t].translator
        /\ local[s].call = local[t].call
        /\ local[s].translation.none
        /\ local[s].translation = local[t].translation

(* C8: every translate call carries the slider's value, which lies in      *)
(* [50, 250]; the tokenized input is cut to it, and no returned string has *)
(* more tokens than it.                                                    *)
C8_MaxLengthBoundsInputAndOutput ==
    \A s \in Sessions :
        /\ local[s].max_length \in SliderMin..SliderMax
        /\ local[s].call.made =>
               /\ local[s].call.max_length = local[s].max_length
               /\ Len(Encoded(s).input_ids) <= local[s].call.max_length
        /\ (Returned(s) /\ ~local[s].translation.none) =>
               Len(local[s].translation.val) <= local[s].call.max_length

C8_Witness ==
    \E s \in Sessions :
        /\ Returned(s)
        /\ local[s].call.max_length = SliderMin
        /\ local[s].call.text = LongText
        /\ Len(Encoded(s).input_ids) = SliderMin
        /\ ~local[s].translation.none
        /\ Len(local[s].translation.val) > SliderMin - 5

(* C9: a session that leaves Translating is in exactly one of Success (the *)
(* success indicator) and Failed (the error banner).                       *)
C9_TranslatingEndsInSuccessOrFailed ==
    [][\A s \in Sessions :
          (pc[s] = "translating" /\ pc'[s] # "translating") =>
              /\ pc'[s] = "done"
              /\ ui'[s].success # (ui'[s].error # <<>>)]_vars

(* C10: translate takes decoded candidate 0: with one or more candidates   *)
(* it returns the first; with none, the subscript fails inside the try, so *)
(* it shows the error banner and returns None.                             *)
C10_TakesCandidateZero ==
    \A s \in Sessions :
        (Returned(s) /\ LibraryRaises(s) = None) =>
            IF Len(Decoded(s).texts) > 0
            THEN local[s].translation = Some(Decoded(s).texts[1])
            ELSE /\ local[s].translation.none
                 /\ ui[s].error = <<"Translation error: ", "IndexError">>
                 /\ ui[s].exception = None

C10_Witness ==
    \E s, t \in Sessions :
        /\ Returned(s) /\ LibraryRaises(s) = None
        /\ Len(Decoded(s).texts) > 1
        /\ Decoded(s).texts[1] # Decoded(s).texts[Len(Decoded(s).texts)]
        /\ local[s].translation = Some(Decoded(s).texts[1])
        /\ Returned(t) /\ LibraryRaises(t) = None
        /\ Len(Decoded(t).texts) = 0
        /\ local[t].translation.none

====
